---- MODULE Spec2Model ----
(***************************************************************************)
(* A model of the NuGet dependency-graph builders of src/src/parser.py:    *)
(* build_dependency_graph_dfs (forward) and                                *)
(* build_reverse_dependency_graph_dfs (reverse), together with the         *)
(* registry lookups they call, the version sort of get_package_versions,   *)
(* and the command-line tool of src/src/main.py.  Strings are sequences of *)
(* one-character strings, so that str.lower(), the `in` substring test and *)
(* version_to_key are computed and not assumed.                            *)
(*                                                                         *)
(* Spec and LiveSpec run one build; KeySpec sorts a collected version      *)
(* list; TwinSpec runs the forward build twice, the registry listing its   *)
(* entries in another order the second time; CliSpec runs main.py.         *)
(***************************************************************************)
EXTENDS Integers, Sequences, FiniteSets, TLC

\* How many of the lookups of one build the environment may make fail.
MaxFaults == 2

\* The count of one kind of lookup is kept up to this many ("many").
CallCap == 2

\* How many times the command-line tool is run, or its file edited.
MaxInvocations == 3

(***************************************************************************)
(* Strings                                                                 *)
(***************************************************************************)

\* str.lower() on one character (the letters the model's strings use).
LowerChar(c) ==
    CASE c = "A" -> "a"
      [] c = "B" -> "b"
      [] c = "C" -> "c"
      [] c = "D" -> "d"
      [] c = "F" -> "f"
      [] c = "N" -> "n"
      [] OTHER -> c

\* str.lower()
RECURSIVE Lower(_)
Lower(s) ==
    IF s = <<>> THEN <<>> ELSE <<LowerChar(Head(s))>> \o Lower(Tail(s))

\* Python's `sub in s` on strings.
Contains(sub, s) ==
    \E i \in 0..(Len(s) - Len(sub)) : SubSeq(s, i + 1, i + Len(sub)) = sub

\* Python's truthiness of an optional string: None and "" are both false.
\* None is modelled by the empty sequence.
None == <<>>
Truthy(s) == s # <<>>

\* The elements of a sequence.
Range(s) == {s[i] : i \in 1..Len(s)}

(***************************************************************************)
(* version_to_key                                                          *)
(***************************************************************************)

\* The code point of a character, for Python's string comparison.
Ord(c) ==
    CASE c = " " -> 32 [] c = "+" -> 43 [] c = "-" -> 45 [] c = "." -> 46
      [] c = "0" -> 48 [] c = "1" -> 49 [] c = "2" -> 50 [] c = "3" -> 51
      [] c = "4" -> 52 [] c = "5" -> 53 [] c = "6" -> 54 [] c = "7" -> 55
      [] c = "8" -> 56 [] c = "9" -> 57
      [] c = "A" -> 65 [] c = "B" -> 66 [] c = "C" -> 67 [] c = "D" -> 68
      [] c = "F" -> 70 [] c = "N" -> 78
      [] c = "a" -> 97 [] c = "b" -> 98 [] c = "c" -> 99 [] c = "d" -> 100
      [] c = "e" -> 101 [] c = "f" -> 102 [] c = "h" -> 104 [] c = "l" -> 108
      [] c = "n" -> 110 [] c = "p" -> 112 [] c = "t" -> 116 [] c = "v" -> 118
      [] c = "x" -> 120 [] c = "y" -> 121 [] c = "²" -> 178
      [] OTHER -> 122

IsDigit(c) == c \in {"0", "1", "2", "3", "4", "5", "6", "7", "8", "9"}

\* str.isdigit() on one character: the decimal digits, and the characters
\* that are digits without being decimal (superscript two stands for them).
IsDigitLike(c) == IsDigit(c) \/ c = "²"

\* str.isdigit(): non-empty and every character a digit.
IsDigitStr(s) == s # <<>> /\ \A i \in 1..Len(s) : IsDigitLike(s[i])

\* Whether int(s) raises ValueError: s is not a string of decimal digits.
IntRaises(s) == s = <<>> \/ \E i \in 1..Len(s) : ~IsDigit(s[i])

\* int(s) for a string of digits.
RECURSIVE ToInt(_)
ToInt(s) ==
    IF s = <<>> THEN 0
    ELSE 10 * ToInt(SubSeq(s, 1, Len(s) - 1)) + (Ord(s[Len(s)]) - 48)

\* str.strip() (of blanks).
RECURSIVE Strip(_)
Strip(s) ==
    IF s = <<>> THEN s
    ELSE IF Head(s) = " " THEN Strip(Tail(s))
    ELSE IF s[Len(s)] = " " THEN Strip(SubSeq(s, 1, Len(s) - 1))
    ELSE s

\* The position of the first occurrence of character c in s, or Len(s) + 1.
RECURSIVE IndexOf(_, _)
IndexOf(c, s) ==
    IF s = <<>> \/ Head(s) = c THEN 1 ELSE 1 + IndexOf(c, Tail(s))

\* str.split(sep) for a one-character separator: empty pieces are kept.
RECURSIVE Split(_, _)
Split(s, sep) ==
    LET i == IndexOf(sep, s)
    IN  IF i > Len(s) THEN <<s>>
        ELSE <<SubSeq(s, 1, i - 1)>> \o Split(SubSeq(s, i + 1, Len(s)), sep)

\* The length of the longest prefix of s made of digits and dots.
RECURSIVE CoreLen(_)
CoreLen(s) ==
    IF s = <<>> \/ ~(IsDigit(Head(s)) \/ Head(s) = ".") THEN 0
    ELSE 1 + CoreLen(Tail(s))

\* The key of an input the regular expression does not match (and of None).
LowestKey == [core |-> <<>>, pre |-> <<[k |-> 0, n |-> 0, s |-> <<>>]>>, build |-> <<>>]

\* PrePart without the isdigit() test: every piece is kept as text.
PrePartAsText(p) == [k |-> 1, n |-> 0, s |-> p]

\* One dot-separated piece of the pre-release part: (0, int(p)) or (1, p).
PrePart(p) ==
    IF IsDigitStr(p) THEN [k |-> 0, n |-> ToInt(p), s |-> <<>>]
    ELSE [k |-> 1, n |-> 0, s |-> p]

\* The match of ^(\d+(?:\.\d+)*)(?:-([^+]+))?(?:\+(.*))?$ on v: whether it
\* matches, and its three groups (an absent group is the empty string).
VersionMatch(v) ==
    LET n == CoreLen(v)
        core == SubSeq(v, 1, n)
        rest == SubSeq(v, n + 1, Len(v))
        coreOk == n > 0 /\ \A p \in Range(Split(core, ".")) : IsDigitStr(p)
        hasPre == rest # <<>> /\ Head(rest) = "-"
        afterDash == IF hasPre THEN Tail(rest) ELSE <<>>
        plusAt == IndexOf("+", afterDash)
        pre == SubSeq(afterDash, 1, plusAt - 1)
        tail == IF hasPre THEN SubSeq(afterDash, plusAt, Len(afterDash)) ELSE rest
        tailOk == tail = <<>> \/ Head(tail) = "+"
    IN  [ok |-> coreOk /\ (hasPre => pre # <<>>) /\ tailOk,
         core |-> core,
         pre |-> pre,
         build |-> IF tail = <<>> THEN <<>> ELSE Tail(tail)]

\* version_to_key: (core_parts, pre_key, build_key).  pre_key (1,) is the
\* single piece [k |-> 1, ...]; pre_key (0, p1, ..) starts with [k |-> 0, ...].
version_to_key(v) ==
    LET m == VersionMatch(Strip(Lower(v)))
        coreParts == Split(m.core, ".")
        preParts == Split(m.pre, ".")
    IN  IF ~m.ok THEN LowestKey
        ELSE [core |-> [i \in 1..Len(coreParts) |-> ToInt(coreParts[i])],
              pre |-> IF m.pre # <<>>
                      THEN <<[k |-> 0, n |-> 0, s |-> <<>>]>>
                           \o [i \in 1..Len(preParts) |-> PrePart(preParts[i])]
                      ELSE <<[k |-> 1, n |-> 0, s |-> <<>>]>>,
              build |-> IF m.build # <<>> THEN Split(m.build, ".") ELSE <<>>]

\* Whether version_to_key raises: line 186 calls int() on a piece of the
\* pre-release part that str.isdigit() accepts and int() does not.
version_to_key_raises(v) ==
    LET m == VersionMatch(Strip(Lower(v)))
    IN  /\ m.ok
        /\ m.pre # <<>>
        /\ \E p \in Range(Split(m.pre, ".")) : IsDigitStr(p) /\ IntRaises(p)

\* Python's order on tuples is lexicographic: the first differing element
\* decides, and a proper prefix is smaller.  On tuples of ints (core_parts):
IntsLess(a, b) ==
    \E i \in 1..Len(b) :
        /\ \A j \in 1..(i - 1) : j <= Len(a) /\ a[j] = b[j]
        /\ (i > Len(a) \/ a[i] < b[i])

\* Python's < on strings, by code point.
StrLess(a, b) ==
    \E i \in 1..Len(b) :
        /\ \A j \in 1..(i - 1) : j <= Len(a) /\ a[j] = b[j]
        /\ (i > Len(a) \/ Ord(a[i]) < Ord(b[i]))

\* Python's < on two elements of a pre_key: (0, n) or (1, s), or the
\* leading 0 or 1.
PreLess(x, y) ==
    \/ x.k < y.k
    \/ x.k = y.k /\ x.n < y.n
    \/ x.k = y.k /\ x.n = y.n /\ StrLess(x.s, y.s)

\* Python's < on two pre_keys.
PresLess(a, b) ==
    \E i \in 1..Len(b) :
        /\ \A j \in 1..(i - 1) : j <= Len(a) /\ a[j] = b[j]
        /\ (i > Len(a) \/ PreLess(a[i], b[i]))

\* Python's < on two build_keys (tuples of strings).
StrsLess(a, b) ==
    \E i \in 1..Len(b) :
        /\ \A j \in 1..(i - 1) : j <= Len(a) /\ a[j] = b[j]
        /\ (i > Len(a) \/ StrLess(a[i], b[i]))

\* Python's < on two keys.
KeyLess(a, b) ==
    \/ IntsLess(a.core, b.core)
    \/ a.core = b.core /\ PresLess(a.pre, b.pre)
    \/ a.core = b.core /\ a.pre = b.pre /\ StrsLess(a.build, b.build)

(***************************************************************************)
(* The registry (api.nuget.org), as the lookups see it                     *)
(***************************************************************************)

\* Package ids, versions and target frameworks the model's registries use.
A == <<"A">>
B == <<"B">>
C == <<"C">>
D == <<"D">>
Fb == <<"F", "b">>
fb == <<"f", "b">>
V1 == <<"1">>
V2 == <<"2">>
V2a == <<"2", "-", "a">>
Vx == <<"x">>
AnyFw == <<"A", "n", "y">>
N4 == <<"N", "4">>
n4 == <<"n", "4">>
N5 == <<"N", "5">>

\* One entry of the list get_package_dependencies returns.
Dep(fw, id) == [framework |-> fw, id |-> id, range |-> <<"*">>]

\* An entry that declares a version range.
DepRange(fw, id, rng) == [framework |-> fw, id |-> id, range |-> rng]

\* A registry: versions maps a lowercase id to the versions of its
\* registration index (an id outside the domain answers 404); deps maps
\* <<lowercase id, lowercase version>> to the dependency entries of that
\* leaf (a pair outside the domain answers 404); dependents maps an id, as
\* spelled in the request, to the ids the dependents API lists.
RegDiamond ==
    [versions |-> (<<"a">> :> {V1, V2}) @@ (<<"b">> :> {V1}) @@ (<<"c">> :> {V1, Vx})
                  @@ (<<"d">> :> {V1}),
     deps |-> (<< <<"a">>, V1 >> :> <<Dep(AnyFw, B), Dep(AnyFw, C)>>)
              @@ (<< <<"a">>, V2 >> :> <<Dep(AnyFw, C), Dep(AnyFw, B)>>)
              @@ (<< <<"b">>, V1 >> :> <<Dep(AnyFw, D)>>)
              @@ (<< <<"c">>, V1 >> :> <<Dep(AnyFw, D)>>)
              @@ (<< <<"d">>, V1 >> :> <<>>),
     dependents |-> (A :> <<B, C>>) @@ (<<"a">> :> <<C, B>>) @@ (B :> <<D>>)
                    @@ (C :> <<D>>)]

RegCycle ==
    [versions |-> (<<"a">> :> {V1, V2}) @@ (<<"b">> :> {V1, V2a, V2}),
     deps |-> (<< <<"a">>, V1 >> :> <<Dep(AnyFw, B)>>)
              @@ (<< <<"a">>, V2 >> :> <<Dep(N4, B)>>)
              @@ (<< <<"b">>, V2 >> :> <<Dep(AnyFw, A)>>),
     dependents |-> (A :> <<B>>) @@ (<<"a">> :> <<B>>) @@ (B :> <<A>>)]

RegChain ==
    [versions |-> (<<"a">> :> {V1, V2}) @@ (<<"b">> :> {V1}) @@ (<<"c">> :> {V2a, V1})
                  @@ (<<"d">> :> {V1}),
     deps |-> (<< <<"a">>, V1 >> :> <<Dep(AnyFw, B)>>)
              @@ (<< <<"a">>, V2 >> :> <<Dep(N4, B)>>)
              @@ (<< <<"b">>, V1 >> :> <<DepRange(N4, C, <<"[", "1", "]">>)>>)
              @@ (<< <<"c">>, V2a >> :> <<Dep(N4, D)>>)
              @@ (<< <<"d">>, V1 >> :> <<>>),
     dependents |-> (A :> <<B>>) @@ (<<"a">> :> <<B>>) @@ (B :> <<C>>) @@ (C :> <<D>>)]

RegCase ==
    [versions |-> (<<"a">> :> {V1, V2}) @@ (<<"b">> :> {V1}) @@ (fb :> {V1})
                  @@ (<<"d">> :> {V1}),
     deps |-> (<< <<"a">>, V1 >> :> <<Dep(AnyFw, Fb), Dep(AnyFw, fb)>>)
              @@ (<< <<"a">>, V2 >> :> <<Dep(AnyFw, Fb), Dep(AnyFw, B)>>)
              @@ (<< <<"b">>, V1 >> :> <<Dep(AnyFw, fb), Dep(AnyFw, <<"a">>)>>)
              @@ (<< fb, V1 >> :> <<Dep(AnyFw, D)>>)
              @@ (<< <<"d">>, V1 >> :> <<>>),
     dependents |-> (A :> <<Fb, fb>>) @@ (<<"a">> :> <<Fb, B>>) @@ (B :> <<fb, <<"a">>>>)
                    @@ (Fb :> <<D>>) @@ (fb :> <<C>>)]

RegFramework ==
    [versions |-> (<<"a">> :> {V1, V2}) @@ (<<"b">> :> {V1}) @@ (<<"c">> :> {V1})
                  @@ (<<"d">> :> {V1}),
     deps |-> (<< <<"a">>, V1 >> :> <<Dep(n4, B), Dep(AnyFw, C), Dep(N5, D)>>)
              @@ (<< <<"a">>, V2 >> :> <<Dep(N5, B), Dep(<<"a", "n", "y">>, C)>>)
              @@ (<< <<"b">>, V1 >> :> <<Dep(N5, D)>>)
              @@ (<< <<"c">>, V1 >> :> <<Dep(N4, D)>>),
     dependents |-> (A :> <<B, C, D>>) @@ (<<"a">> :> <<D, C, B>>)]

\* B has a registration index without versions, C has none at all.
RegSparse ==
    [versions |-> (<<"a">> :> {V1}) @@ (<<"b">> :> {}) @@ (<<"d">> :> {V1}),
     deps |-> (<< <<"a">>, V1 >> :> <<Dep(AnyFw, B), Dep(AnyFw, C), Dep(AnyFw, D)>>)
              @@ (<< <<"a">>, V2 >> :> <<Dep(AnyFw, B), Dep(AnyFw, D)>>)
              @@ (<< <<"d">>, V1 >> :> <<Dep(AnyFw, C)>>),
     dependents |-> (A :> <<B, A>>) @@ (B :> <<B>>)]

Registries == {RegDiamond, RegCycle, RegChain, RegCase, RegFramework, RegSparse}

\* The orders in which a leaf may list its entries.
Orders(entries) ==
    {l \in [1..Len(entries) -> Range(entries)] :
        \A i, j \in DOMAIN l : i # j => l[i] # l[j]}

\* The registries that hold what reg holds, every leaf listing its entries
\* in some order.
Reorderings(reg) ==
    {[reg EXCEPT !.deps = d] : d \in
        {f \in [DOMAIN reg.deps -> UNION {Orders(reg.deps[leaf]) : leaf \in DOMAIN reg.deps}] :
            \A leaf \in DOMAIN reg.deps : f[leaf] \in Orders(reg.deps[leaf])}}

\* Reorderings, tabulated for the model's registries.
ReorderingsOf == [reg \in Registries |-> Reorderings(reg)]

Orderings == UNION {ReorderingsOf[reg] : reg \in Registries}

\* The arguments the builds are called with.
Roots == {A, <<"a">>}
StartVersions == {V1, V2}
Frameworks == {None, N4}
ExcludeValues == {None, B, A, fb}
TakeValues == {1, 2}

(***************************************************************************)
(* The registry lookups                                                    *)
(***************************************************************************)

\* get_package_versions on a registry that answers: the set of versions
\* collected from the registration index (line 89's set(versions)).
get_package_versions(reg, package_id) == reg.versions[Lower(package_id)]

\* HasIndex taking an index without versions for a missing one.
HasIndexWithVersions(reg, package_id) ==
    /\ Lower(package_id) \in DOMAIN reg.versions
    /\ reg.versions[Lower(package_id)] # {}

\* Whether the registration index of package_id exists; if not, line 63's
\* raise_for_status raises out of get_package_versions.
HasIndex(reg, package_id) == Lower(package_id) \in DOMAIN reg.versions

\* LatestVersions of a sort without reverse=True: the minimal keys.
EarliestVersions(versions) ==
    {v \in versions :
        \A w \in versions : ~KeyLess(version_to_key(w), version_to_key(v))}

\* The versions that can stand first in
\* sorted(list(set(versions)), key=version_to_key, reverse=True): those with
\* a maximal key (the order of a set's equal-keyed members is not fixed).
LatestVersions(versions) ==
    {v \in versions :
        \A w \in versions : ~KeyLess(version_to_key(v), version_to_key(w))}

\* get_package_dependencies on a registry that answers: the entries of the
\* leaf's dependency groups whose id is not empty; a leaf the registry does
\* not hold is a 404, caught inside the function, which returns [].
get_package_dependencies(reg, package_id, version) ==
    LET leaf == <<Lower(package_id), Lower(version)>>
    IN  IF leaf \in DOMAIN reg.deps
        THEN SelectSeq(reg.deps[leaf], LAMBDA d : Truthy(d.id))
        ELSE <<>>

\* get_reverse_dependencies on a registry that answers: the first `take`
\* of the listed dependents (skip is 0 at the only call site).
get_reverse_dependencies(reg, package_id, take) ==
    IF package_id \in DOMAIN reg.dependents
    THEN SubSeq(reg.dependents[package_id], 1,
                IF take < Len(reg.dependents[package_id])
                THEN take ELSE Len(reg.dependents[package_id]))
    ELSE <<>>

\* FilterFramework without the "Any" groups.
FilterFrameworkExact(direct_deps, fw) ==
    IF Truthy(fw)
    THEN SelectSeq(direct_deps, LAMBDA d : Lower(d.framework) = Lower(fw))
    ELSE direct_deps

\* Lines 242-250: the entries of the requested framework, or of "Any".
FilterFramework(direct_deps, fw) ==
    IF Truthy(fw)
    THEN SelectSeq(direct_deps,
                   LAMBDA d : Lower(d.framework) = Lower(fw) \/ d.framework = AnyFw)
    ELSE direct_deps

(***************************************************************************)
(* State                                                                   *)
(***************************************************************************)

VARIABLES
    registry,                    \* what api.nuget.org holds during the build
    start_package,               \* the arguments of the build
    start_version,
    framework,
    exclude_substring,
    max_dependents_per_package,
    stack,                       \* the deque, its right end last
    graph,                       \* the dict: key -> set of ids
    visited,                     \* the set of lowercase ids
    current_id,                  \* the frame popped last
    current_version,
    deps_to_process,             \* the list the for loop runs over
    idx,                         \* the for loop's position in it
    pc,                          \* where the build is
    calls,                       \* the lookups made: lookup -> how many times
    errors,                      \* the error lines printed
    faults,                      \* how many lookups the environment failed
    first_seen,                  \* history: lowercase id -> its first spelling
    version_list,                \* get_package_versions: set(versions) of line 89
    sorted_versions,             \* get_package_versions: the list it returns
    drawn,                       \* history: how the members of version_list were made
    vpc,                         \* where get_package_versions is
    previous_graph,              \* the graph the build before this one returned
    run,                         \* which build of two this is (0: the only one)
    config_dir,                  \* main.py: whether CONFIG_PATH's directory exists
    config_file,                 \* main.py: what the file at CONFIG_PATH holds
    config,                      \* main.py: what load_config returned last
    invocations                  \* history: the runs of main.py and their outcomes

vars == <<registry, start_package, start_version, framework, exclude_substring,
          max_dependents_per_package, stack, graph, visited, current_id,
          current_version, deps_to_process, idx, pc, calls, errors, faults,
          first_seen, version_list, sorted_versions, drawn, vpc,
          previous_graph, run, config_dir, config_file, config, invocations>>

\* The state of the two builds.
buildvars == <<registry, start_package, start_version, framework,
               exclude_substring, max_dependents_per_package, stack, graph,
               visited, current_id, current_version, deps_to_process, idx, pc,
               calls, errors, faults, first_seen>>

\* The state of a call of get_package_versions on its own.
keyvars == <<version_list, sorted_versions, drawn, vpc>>

\* The state of a second build of the same graph.
twinvars == <<previous_graph, run>>

\* The state of the command-line tool of main.py.
clivars == <<config_dir, config_file, config, invocations>>

\* What a build leaves alone.
other == <<keyvars, twinvars, clivars>>

\* No call of get_package_versions on its own is under way.
KeyIdle ==
    /\ version_list = {}
    /\ sorted_versions = <<>>
    /\ drawn = {}
    /\ vpc = "idle"

\* The build is not one of two.
TwinIdle ==
    /\ previous_graph = [k \in {} |-> {}]
    /\ run = 0

\* The command-line tool of main.py is not run.
CliIdle ==
    /\ config_dir = "absent"
    /\ config_file = "absent"
    /\ config = "None"
    /\ invocations = <<>>

args == <<registry, start_package, start_version, framework,
          max_dependents_per_package>>

EmptyGraph == [k \in {} |-> {}]

\* versions[0] of get_package_versions, tabulated for the model's
\* registries: registry -> lowercase id -> the versions that can stand first.
LatestOf ==
    [reg \in Orderings |->
        [l \in DOMAIN reg.versions |->
            LatestVersions(get_package_versions(reg, l))]]

\* The state before the first statement of a build; pc tells which build.
\* The forward build has no max_dependents_per_package (0 stands for it),
\* the reverse build no start_version and no framework.
Init ==
    /\ registry \in Registries
    /\ start_package \in Roots
    /\ exclude_substring \in ExcludeValues
    /\ pc \in {"start", "rstart"}
    /\ start_version \in (IF pc = "start" THEN StartVersions ELSE {None})
    /\ framework \in (IF pc = "start" THEN Frameworks ELSE {None})
    /\ max_dependents_per_package \in (IF pc = "start" THEN {0} ELSE TakeValues)
    /\ stack = <<>>
    /\ graph = EmptyGraph
    /\ visited = {}
    /\ current_id = None
    /\ current_version = None
    /\ deps_to_process = <<>>
    /\ idx = 1
    /\ calls = [c \in {} |-> 0]
    /\ errors = {}
    /\ faults = 0
    /\ first_seen = [l \in {} |-> None]
    /\ KeyIdle
    /\ TwinIdle
    /\ CliIdle

\* One more lookup in the record of lookups.
Called(c) ==
    IF c \in DOMAIN calls
    THEN [calls EXCEPT ![c] = IF @ < CallCap THEN @ + 1 ELSE @]
    ELSE calls @@ (c :> 1)

\* The history of spellings after id is met: the first spelling stays.
Seen(id) ==
    IF Lower(id) \in DOMAIN first_seen THEN first_seen
    ELSE first_seen @@ (Lower(id) :> id)

\* The failures the environment may still inject.
MayFail(kinds) == IF faults < MaxFaults THEN kinds ELSE {}

(***************************************************************************)
(* build_dependency_graph_dfs                                              *)
(***************************************************************************)

\* RootExcluded without the root's lower().
RootExcludedCased(ex, root) == Contains(Lower(ex), root)

\* Line 215: the root itself is excluded.
RootExcluded(ex, root) == Contains(Lower(ex), Lower(root))

\* InVisited on the id as spelled.
InVisitedCased(id) == id \in visited

\* Lines 230 and 262: the visited test, on the lowercase id.
InVisited(id) == Lower(id) \in visited

\* MarkVisited adding the id as spelled.
MarkVisitedCased(id) == visited \cup {id}

\* Line 233: visited.add(current_id_lower).
MarkVisited(id) == visited \cup {Lower(id)}

\* EnsureKey left to the first edge: a popped node is no key yet.
EnsureKeyLazy(id) == graph

\* Lines 235-236: the node becomes a key, with an empty set.
EnsureKey(id) == IF id \in DOMAIN graph THEN graph ELSE graph @@ (id :> {})

\* Excluded without the dependency id's lower().
ExcludedCased(id) == Truthy(exclude_substring) /\ Contains(exclude_substring, id)

\* Line 256: the exclusion filter on a dependency (exclude_substring was
\* lowercased at line 212).
Excluded(id) == Truthy(exclude_substring) /\ Contains(exclude_substring, Lower(id))

\* RecordEdge placed after the visited test: no edge to a visited id.
RecordEdgeIfNew(dep_id) ==
    IF Lower(dep_id) \in visited THEN graph
    ELSE [graph EXCEPT ![current_id] = @ \cup {dep_id}]

\* RecordEdge assigning the set: the edges recorded before are lost.
RecordEdgeReplacing(dep_id) == [graph EXCEPT ![current_id] = {dep_id}]

\* Line 260: graph[current_id].add(dep_id).
RecordEdge(dep_id) == [graph EXCEPT ![current_id] = @ \cup {dep_id}]

\* Push assigning the stack: the frames pushed before are lost.
PushReplacing(frame) == <<frame>>

\* Line 269: stack.append((dep_id, latest_ver)).
Push(frame) == Append(stack, frame)

\* The for loop goes on with entry i of deps, or the while loop goes on.
ForOrLoop(i, deps) == IF i <= Len(deps) THEN "deps" ELSE "loop"

\* Caught with the handler outside the while loop: the exception ends it.
CaughtOutsideLoop(fn, cause) ==
    /\ pc' = "done"
    /\ errors' = errors \cup
           {[line |-> IF cause \in {"config", "catalogEntry"} THEN 274 ELSE 272,
             fn |-> fn, id |-> current_id, cause |-> cause]}

\* Lines 271-274: an exception of the loop body is printed ("[Error]" at
\* line 272 for a RequestException, "[Fatal Error]" at line 274 for any
\* other) and the while loop goes on.
Caught(fn, cause) ==
    /\ pc' = "loop"
    /\ errors' = errors \cup
           {[line |-> IF cause \in {"config", "catalogEntry"} THEN 274 ELSE 272,
             fn |-> fn, id |-> current_id, cause |-> cause]}

\* Lines 209-223: the root-exclusion short circuit, then the fresh stack,
\* graph and visited set.
Begin ==
    /\ pc = "start"
    /\ exclude_substring' =
           IF Truthy(exclude_substring) THEN Lower(exclude_substring)
           ELSE exclude_substring
    /\ IF Truthy(exclude_substring) /\ RootExcluded(exclude_substring, start_package)
       THEN /\ pc' = "done"
            /\ UNCHANGED <<stack, graph, visited>>
       ELSE /\ pc' = "loop"
            /\ stack' = << <<start_package, start_version>> >>
            /\ graph' = EmptyGraph
            /\ visited' = {}
    /\ first_seen' = Seen(start_package)
    /\ UNCHANGED <<args, other, current_id, current_version, deps_to_process, idx,
                   calls, errors, faults>>

\* Lines 225-238: pop a frame; a visited id is dropped, a new one is marked
\* and becomes a key.
Pop ==
    /\ pc = "loop"
    /\ stack # <<>>
    /\ LET frame == stack[Len(stack)]
       IN  /\ stack' = SubSeq(stack, 1, Len(stack) - 1)
           /\ current_id' = frame[1]
           /\ current_version' = frame[2]
           /\ IF InVisited(frame[1])
              THEN /\ pc' = "loop"
                   /\ UNCHANGED <<visited, graph>>
              ELSE /\ pc' = "fetch"
                   /\ visited' = MarkVisited(frame[1])
                   /\ graph' = EnsureKey(frame[1])
    /\ UNCHANGED <<args, other, exclude_substring, deps_to_process, idx, calls, errors,
                   faults, first_seen>>

\* Lines 225, 276-277: the stack is empty, the graph is returned.
Return ==
    /\ pc = "loop"
    /\ stack = <<>>
    /\ pc' = "done"
    /\ UNCHANGED <<args, other, exclude_substring, stack, graph, visited, current_id,
                   current_version, deps_to_process, idx, calls, errors, faults,
                   first_seen>>

\* Lines 240-250, 271-274: the dependency lookup of the popped node.  The
\* lookup answers ("ok": the leaf's entries, or a 404 caught at line 147), or
\* fails inside its try block ("transport": caught at line 147, returns []),
\* or get_nuget_service_index raises at line 100 ("index": caught by the
\* build at line 271), or find_resource_url raises ValueError at line 101
\* ("config") or line 143 does ("catalogEntry"): caught at line 273.
Fetch ==
    /\ pc = "fetch"
    /\ calls' = Called([fn |-> "get_package_dependencies", id |-> current_id])
    /\ \E outcome \in {"ok"} \cup MayFail({"transport", "index", "config", "catalogEntry"}) :
          LET leaf == <<Lower(current_id), Lower(current_version)>>
              direct_deps ==
                  IF outcome = "ok"
                  THEN get_package_dependencies(registry, current_id, current_version)
                  ELSE <<>>
              deps == FilterFramework(direct_deps, framework)
          IN  /\ faults' = IF outcome = "ok" THEN faults ELSE faults + 1
              /\ IF outcome \in {"ok", "transport"}
                 THEN /\ deps_to_process' = deps
                      /\ idx' = 1
                      /\ pc' = ForOrLoop(1, deps)
                      /\ errors' =
                             IF outcome = "ok" /\ leaf \in DOMAIN registry.deps
                             THEN errors
                             ELSE errors \cup
                                  {[line |-> 148, fn |-> "get_package_dependencies",
                                    id |-> current_id,
                                    cause |-> IF outcome = "ok" THEN "404" ELSE outcome]}
                 ELSE /\ Caught("get_package_dependencies", outcome)
                      /\ UNCHANGED <<deps_to_process, idx>>
    /\ UNCHANGED <<args, other, exclude_substring, stack, graph, visited, current_id,
                   current_version, first_seen>>

\* Lines 252-269, 271-274: one pass of the for loop.  An excluded entry is
\* skipped; otherwise the edge is recorded and, for an id not visited, the
\* versions are looked up: the latest is pushed, or there are none, or the
\* lookup raises (no registration index: "404"; "transport"; "config") and
\* the build's except clause ends the for loop.
ProcessDep ==
    /\ pc = "deps"
    /\ LET dep_id == deps_to_process[idx].id
       IN  IF Excluded(dep_id)
           THEN /\ idx' = idx + 1
                /\ pc' = ForOrLoop(idx + 1, deps_to_process)
                /\ UNCHANGED <<graph, stack, calls, errors, faults>>
           ELSE /\ graph' = RecordEdge(dep_id)
                /\ IF InVisited(dep_id)
                   THEN /\ idx' = idx + 1
                        /\ pc' = ForOrLoop(idx + 1, deps_to_process)
                        /\ UNCHANGED <<stack, calls, errors, faults>>
                   ELSE /\ calls' = Called([fn |-> "get_package_versions", id |-> dep_id])
                        /\ \E outcome \in {"ok"} \cup MayFail({"transport", "config"}) :
                              LET raised == IF outcome = "ok" /\ ~HasIndex(registry, dep_id)
                                            THEN "404" ELSE outcome
                              IN  /\ faults' = IF outcome = "ok" THEN faults ELSE faults + 1
                                  /\ IF raised = "ok"
                                     THEN LET versions == get_package_versions(registry, dep_id)
                                          IN  /\ idx' = idx + 1
                                              /\ pc' = ForOrLoop(idx + 1, deps_to_process)
                                              /\ UNCHANGED errors
                                              /\ IF versions = {}
                                                 THEN UNCHANGED stack
                                                 ELSE \E latest_ver \in LatestOf[registry][Lower(dep_id)] :
                                                         stack' = Push(<<dep_id, latest_ver>>)
                                     ELSE /\ Caught("get_package_versions", raised)
                                          /\ UNCHANGED <<idx, stack>>
    /\ first_seen' = Seen(deps_to_process[idx].id)
    /\ UNCHANGED <<args, other, exclude_substring, visited, current_id, current_version,
                   deps_to_process>>

\* The forward build.
Forward == Begin \/ Pop \/ Fetch \/ ProcessDep \/ Return

(***************************************************************************)
(* build_reverse_dependency_graph_dfs                                      *)
(***************************************************************************)

\* Line 329: the root itself is excluded.
ReverseRootExcluded(ex, root) == Contains(Lower(ex), Lower(root))

\* Lines 344 and 368: the visited test, on the lowercase id.
ReverseInVisited(id) == Lower(id) \in visited

\* Line 347: visited.add(current_id_lower).
ReverseMarkVisited(id) == visited \cup {Lower(id)}

\* Lines 349-350: the node becomes a key, with an empty set.
ReverseEnsureKey(id) == IF id \in DOMAIN graph THEN graph ELSE graph @@ (id :> {})

\* Line 362: the exclusion filter on a dependent.
ReverseExcluded(id) ==
    Truthy(exclude_substring) /\ Contains(exclude_substring, Lower(id))

\* Line 366: graph[current_id].add(dep_id).
ReverseRecordEdge(dep_id) == [graph EXCEPT ![current_id] = @ \cup {dep_id}]

\* The for loop goes on with entry i, or the while loop goes on.
ReverseForOrLoop(i, deps) == IF i <= Len(deps) THEN "rdeps" ELSE "rloop"

\* ReverseTake left at the default of get_reverse_dependencies.
ReverseTakeDefault == 100

\* Lines 355-357: the limit the dependents lookup is called with.
ReverseTake == max_dependents_per_package

\* Lines 323-337.
ReverseBegin ==
    /\ pc = "rstart"
    /\ exclude_substring' =
           IF Truthy(exclude_substring) THEN Lower(exclude_substring)
           ELSE exclude_substring
    /\ IF Truthy(exclude_substring)
          /\ ReverseRootExcluded(exclude_substring, start_package)
       THEN /\ pc' = "rdone"
            /\ UNCHANGED <<stack, graph, visited>>
       ELSE /\ pc' = "rloop"
            /\ stack' = <<start_package>>
            /\ graph' = EmptyGraph
            /\ visited' = {}
    /\ first_seen' = Seen(start_package)
    /\ UNCHANGED <<args, other, current_id, current_version, deps_to_process, idx,
                   calls, errors, faults>>

\* Lines 339-352.
ReversePop ==
    /\ pc = "rloop"
    /\ stack # <<>>
    /\ LET frame == stack[Len(stack)]
       IN  /\ stack' = SubSeq(stack, 1, Len(stack) - 1)
           /\ current_id' = frame
           /\ IF ReverseInVisited(frame)
              THEN /\ pc' = "rloop"
                   /\ UNCHANGED <<visited, graph>>
              ELSE /\ pc' = "rfetch"
                   /\ visited' = ReverseMarkVisited(frame)
                   /\ graph' = ReverseEnsureKey(frame)
    /\ UNCHANGED <<args, other, exclude_substring, current_version, deps_to_process,
                   idx, calls, errors, faults, first_seen>>

\* Lines 339, 376-377.
ReverseReturn ==
    /\ pc = "rloop"
    /\ stack = <<>>
    /\ pc' = "rdone"
    /\ UNCHANGED <<args, other, exclude_substring, stack, graph, visited, current_id,
                   current_version, deps_to_process, idx, calls, errors, faults,
                   first_seen>>

\* Lines 355-357 with get_reverse_dependencies (lines 280-307): the one
\* dependents lookup of the popped node, skip 0 and take
\* max_dependents_per_package; a failed request is caught at line 303 and
\* the lookup returns [].
ReverseFetch ==
    /\ pc = "rfetch"
    /\ calls' = Called([fn |-> "get_reverse_dependencies", id |-> current_id,
                        skip |-> 0, take |-> ReverseTake])
    /\ \E outcome \in {"ok"} \cup MayFail({"transport"}) :
          LET direct_dependents ==
                  IF outcome = "ok"
                  THEN get_reverse_dependencies(registry, current_id, ReverseTake)
                  ELSE <<>>
          IN  /\ faults' = IF outcome = "ok" THEN faults ELSE faults + 1
              /\ deps_to_process' = direct_dependents
              /\ idx' = 1
              /\ pc' = ReverseForOrLoop(1, direct_dependents)
              /\ errors' = IF outcome = "ok" THEN errors
                           ELSE errors \cup
                                {[line |-> 305, fn |-> "get_reverse_dependencies",
                                  id |-> current_id, cause |-> outcome]}
    /\ UNCHANGED <<args, other, exclude_substring, stack, graph, visited, current_id,
                   current_version, first_seen>>

\* Lines 359-369: one pass of the for loop over the dependents.
ReverseProcessDep ==
    /\ pc = "rdeps"
    /\ LET dep_id == deps_to_process[idx]
       IN  /\ idx' = idx + 1
           /\ pc' = ReverseForOrLoop(idx + 1, deps_to_process)
           /\ IF ReverseExcluded(dep_id)
              THEN UNCHANGED <<graph, stack>>
              ELSE /\ graph' = ReverseRecordEdge(dep_id)
                   /\ stack' = IF ReverseInVisited(dep_id) THEN stack
                               ELSE Append(stack, dep_id)
    /\ first_seen' = Seen(deps_to_process[idx])
    /\ UNCHANGED <<args, other, exclude_substring, visited, current_id, current_version,
                   deps_to_process, calls, errors, faults>>

\* The reverse build.
Reverse ==
    ReverseBegin \/ ReversePop \/ ReverseFetch \/ ReverseProcessDep \/ ReverseReturn

(***************************************************************************)
(* get_package_versions on its own: the sort of line 89                    *)
(***************************************************************************)

\* The decimal digits of n.
RECURSIVE Digits(_)
Digits(n) ==
    LET d == <<"0", "1", "2", "3", "4", "5", "6", "7", "8", "9">>
    IN  IF n < 10 THEN <<d[n + 1]>> ELSE Digits(n \div 10) \o <<d[(n % 10) + 1]>>

\* sep.join(pieces)
RECURSIVE Join(_, _)
Join(pieces, sep) ==
    IF pieces = <<>> THEN <<>>
    ELSE IF Len(pieces) = 1 THEN pieces[1]
    ELSE pieces[1] \o <<sep>> \o Join(Tail(pieces), sep)

\* A segment of a pre-release part: a number or a word.
Num(n) == [num |-> TRUE, n |-> n, s |-> <<>>]
Word(s) == [num |-> FALSE, n |-> 0, s |-> s]
SegmentText(g) == IF g.num THEN Digits(g.n) ELSE g.s

\* The version string of a core (numbers), a pre-release part (segments,
\* none for no tag) and a build part (words, none for no metadata).
Render(parts) ==
    Join([i \in 1..Len(parts.core) |-> Digits(parts.core[i])], ".")
    \o (IF parts.pre = <<>> THEN <<>>
        ELSE <<"-">> \o Join([i \in 1..Len(parts.pre) |-> SegmentText(parts.pre[i])], "."))
    \o (IF parts.build = <<>> THEN <<>>
        ELSE <<"+">> \o Join(parts.build, "."))

alpha == <<"a", "l", "p", "h", "a">>
beta == <<"b", "e", "t", "a">>

\* The parts the well-formed version strings of the model are made of.
Cores == {<<1>>, <<1, 0>>, <<1, 0, 0>>, <<1, 9, 9>>, <<2, 0, 0>>, <<1, 10>>}
Pres == {<<>>, <<Num(1)>>, <<Num(2)>>, <<Num(10)>>, <<Word(alpha)>>, <<Word(beta)>>,
         <<Word(alpha), Num(1)>>, <<Word(alpha), Num(2)>>}
Builds == {<<>>, <<<<"x">>>>, <<<<"x">>, <<"1">>>>}

\* A version string the registry may list, with the parts it was made of.
WellFormed(parts) == [text |-> Render(parts), wellformed |-> TRUE, parts |-> parts]
NoParts == [core |-> <<>>, pre |-> <<>>, build |-> <<>>]
Malformed(text) == [text |-> text, wellformed |-> FALSE, parts |-> NoParts]

\* Well-formed strings in another spelling: blanks around, upper case.
Respelled ==
    {[text |-> <<" ", "1", ".", "0", " ">>, wellformed |-> TRUE,
      parts |-> [core |-> <<1, 0>>, pre |-> <<>>, build |-> <<>>]],
     [text |-> <<"1", ".", "0", "-", "B", "e", "t", "a">>, wellformed |-> TRUE,
      parts |-> [core |-> <<1, 0>>, pre |-> <<Word(beta)>>, build |-> <<>>]]}

\* Strings that are no versions: None or "", a word, a "v" prefix, an empty
\* core piece, an empty pre-release part, blanks inside.
MalformedInputs ==
    {Malformed(None), Malformed(<<"x">>), Malformed(<<"v", "1", ".", "0">>),
     Malformed(<<"1", ".">>), Malformed(<<".", "1">>), Malformed(<<"1", ".", ".", "0">>),
     Malformed(<<"1", ".", "0", "-">>), Malformed(<<"-", "a">>),
     Malformed(<<"1", " ", "0">>), Malformed(<<"1", ".", "0", "-", "+", "x">>),
     Malformed(<<"²">>)}

\* A pre-release segment that str.isdigit() takes for a number.
SuperscriptInputs ==
    {Malformed(<<"1", ".", "0", ".", "0", "-", "²">>),
     Malformed(<<"1", ".", "0", "-", "a", ".", "²">>)}

VersionInputs ==
    {WellFormed([core |-> c, pre |-> p, build |-> b]) :
        c \in Cores, p \in Pres, b \in Builds}
    \cup Respelled \cup MalformedInputs \cup SuperscriptInputs
\* The lists sorted(list(set(versions)), key=version_to_key, reverse=True)
\* can return: no member's key is below the key of a later member (the
\* order of a set's equal-keyed members is not fixed).
SortedLatestFirst(versions) ==
    {l \in [1..Cardinality(versions) -> versions] :
        /\ \A i, j \in DOMAIN l : i # j => l[i] # l[j]
        /\ \A i, j \in DOMAIN l :
              i < j => ~KeyLess(version_to_key(l[i]), version_to_key(l[j]))}

\* Line 89: the collected versions are sorted latest first and returned,
\* or version_to_key raises and so does get_package_versions.
SortVersions ==
    /\ vpc = "collected"
    /\ IF \E v \in version_list : version_to_key_raises(v)
       THEN /\ vpc' = "raised"
            /\ sorted_versions' = <<>>
       ELSE /\ vpc' = "returned"
            /\ sorted_versions' \in SortedLatestFirst(version_list)
    /\ UNCHANGED <<buildvars, twinvars, clivars, version_list, drawn>>

\* No build is under way.
BuildIdle ==
    /\ registry = RegDiamond
    /\ start_package = None
    /\ start_version = None
    /\ framework = None
    /\ exclude_substring = None
    /\ max_dependents_per_package = 0
    /\ stack = <<>>
    /\ graph = EmptyGraph
    /\ visited = {}
    /\ current_id = None
    /\ current_version = None
    /\ deps_to_process = <<>>
    /\ idx = 1
    /\ pc = "idle"
    /\ calls = [c \in {} |-> 0]
    /\ errors = {}
    /\ faults = 0
    /\ first_seen = [l \in {} |-> None]

\* get_package_versions has collected one or two of the version strings.
KeyInit ==
    /\ BuildIdle
    /\ drawn \in {{a, b} : a, b \in VersionInputs}
    /\ version_list = {d.text : d \in drawn}
    /\ sorted_versions = <<>>
    /\ vpc = "collected"
    /\ TwinIdle
    /\ CliIdle

KeyNext == SortVersions

KeySpec == KeyInit /\ [][KeyNext]_vars

(***************************************************************************)
(* The same graph built twice                                              *)
(***************************************************************************)

\* Lines 414-431: build_dependency_graph_dfs is called again with the same
\* arguments.  The registry holds what it held and may list the entries of
\* a leaf in another order.
Rerun ==
    /\ pc = "done"
    /\ run = 1
    /\ run' = 2
    /\ previous_graph' = graph
    /\ registry' \in ReorderingsOf[registry]
    /\ pc' = "start"
    /\ stack' = <<>>
    /\ graph' = EmptyGraph
    /\ visited' = {}
    /\ current_id' = None
    /\ current_version' = None
    /\ deps_to_process' = <<>>
    /\ idx' = 1
    /\ calls' = [c \in {} |-> 0]
    /\ errors' = {}
    /\ first_seen' = [l \in {} |-> None]
    /\ UNCHANGED <<start_package, start_version, framework, exclude_substring,
                   max_dependents_per_package, faults, keyvars, clivars>>

\* The first of two forward builds, before its first statement.  Every
\* lookup answers as the registry has it: the environment fails none (its
\* allowance of failures is used up).
TwinInit ==
    /\ registry \in Registries
    /\ start_package \in Roots
    /\ start_version \in StartVersions
    /\ framework \in Frameworks
    /\ exclude_substring \in ExcludeValues
    /\ max_dependents_per_package = 0
    /\ pc = "start"
    /\ stack = <<>>
    /\ graph = EmptyGraph
    /\ visited = {}
    /\ current_id = None
    /\ current_version = None
    /\ deps_to_process = <<>>
    /\ idx = 1
    /\ calls = [c \in {} |-> 0]
    /\ errors = {}
    /\ faults = MaxFaults
    /\ first_seen = [l \in {} |-> None]
    /\ KeyIdle
    /\ CliIdle
    /\ previous_graph = EmptyGraph
    /\ run = 1

TwinNext == Forward \/ Rerun

TwinSpec == TwinInit /\ [][TwinNext]_vars

(***************************************************************************)
(* The command-line tool of src/src/main.py                                *)
(***************************************************************************)

\* What the file at CONFIG_PATH can hold: nothing (as touch() leaves it), a
\* YAML mapping, the empty mapping {}, a YAML scalar, or text that is no YAML.
FileContents == {"empty", "mapping", "empty_mapping", "scalar", "invalid"}

\* The commands of the argument parser ("none": no command given).
Commands == {"init", "deps", "rdeps", "visualize", "none"}

\* load_config (lines 43-66): None for a missing file (line 50), what
\* yaml.safe_load returns otherwise (None for an empty file, line 63), None
\* for a YAMLError (line 66); a scalar has no items(), so line 58 raises
\* AttributeError out of load_config.
load_config(file) ==
    CASE file = "absent" -> "None"
      [] file = "empty" -> "None"
      [] file = "invalid" -> "None"
      [] file = "empty_mapping" -> "{}"
      [] file = "mapping" -> "dict"
      [] file = "scalar" -> "AttributeError"

\* main with the command init (lines 201-203) and initialize_config (lines
\* 17-40): the directory is made unless it exists (mkdir may fail: return),
\* then the file is touched unless it exists (touch may fail).
initialize_config ==
    /\ Len(invocations) < MaxInvocations
    /\ \E mkdir_ok, touch_ok \in BOOLEAN :
          LET outcome ==
                  IF config_dir = "absent" /\ ~mkdir_ok THEN "mkdir_failed"
                  ELSE IF config_file # "absent" THEN "kept"
                  ELSE IF touch_ok THEN "created"
                  ELSE "touch_failed"
          IN  /\ config_dir' = IF outcome = "mkdir_failed" THEN config_dir ELSE "exists"
              /\ config_file' = IF outcome = "created" THEN "empty" ELSE config_file
              /\ invocations' =
                     Append(invocations, [command |-> "init", outcome |-> outcome])
    /\ UNCHANGED <<config, buildvars, keyvars, twinvars>>

\* main with any other command (lines 205-224): load_config, then "Config
\* not loaded" and return for None, else the command: deps calls
\* find_dependencies, rdeps and visualize print a notice, no command prints
\* the help.
main ==
    /\ Len(invocations) < MaxInvocations
    /\ \E command \in Commands \ {"init"} :
          LET loaded == load_config(config_file)
              outcome ==
                  IF loaded = "AttributeError" THEN "crash"
                  ELSE IF loaded = "None" THEN "config_not_loaded"
                  ELSE IF command = "deps" THEN "find_dependencies"
                  ELSE IF command = "none" THEN "help"
                  ELSE "coming_soon"
          IN  /\ config' = IF loaded = "AttributeError" THEN config ELSE loaded
              /\ invocations' =
                     Append(invocations, [command |-> command, outcome |-> outcome])
    /\ UNCHANGED <<config_dir, config_file, buildvars, keyvars, twinvars>>

\* Between two runs the user writes the file at CONFIG_PATH.
EditConfigFile ==
    /\ Len(invocations) < MaxInvocations
    /\ config_dir = "exists"
    /\ \E content \in FileContents \ {config_file} :
          /\ config_file' = content
          /\ invocations' =
                 Append(invocations, [command |-> "edit", outcome |-> content])
    /\ UNCHANGED <<config_dir, config, buildvars, keyvars, twinvars>>

\* The tool has not been run; the directory and the file may exist.
CliInit ==
    /\ BuildIdle
    /\ KeyIdle
    /\ TwinIdle
    /\ config_dir \in {"absent", "exists"}
    /\ config_file \in (IF config_dir = "absent" THEN {"absent"}
                        ELSE {"absent"} \cup FileContents)
    /\ config = "None"
    /\ invocations = <<>>

CliNext == initialize_config \/ main \/ EditConfigFile

CliSpec == CliInit /\ [][CliNext]_vars

Next == Forward \/ Reverse

Spec == Init /\ [][Next]_vars

\* The builds run one statement after the other until they return.
LiveSpec == Spec /\ WF_vars(Next)

(***************************************************************************)
(* Properties                                                              *)
(***************************************************************************)

Done == pc \in {"done", "rdone"}
NoFilters == framework = None /\ exclude_substring = None
DepLookup(id) == [fn |-> "get_package_dependencies", id |-> id]
EdgeSet == UNION {{<<k, d>> : d \in graph[k]} : k \in DOMAIN graph}

\* Some dependency lookup of the build has failed.
DepLookupFailed ==
    \E e \in errors : e.fn = "get_package_dependencies"

\* The id contains exclude_substring, case-insensitively.
Matches(id) == Contains(Lower(exclude_substring), Lower(id))
RootMatches == Truthy(exclude_substring) /\ Matches(start_package)

\* The id of a stack frame: the frame itself in the reverse build.
FrameId(frame) ==
    IF pc \in {"rloop", "rfetch", "rdeps", "rdone"} THEN frame ELSE frame[1]

\* The lookups that expand a node.
Expansions ==
    {c \in DOMAIN calls :
        c.fn \in {"get_package_dependencies", "get_reverse_dependencies"}}

\* C1: on the diamond A->B, A->C, B->D, C->D without filters and without
\* failed lookups, the returned forward graph has D in graph[B] and in
\* graph[C], and D as a key with an empty set, for both orders of A's
\* dependencies (start_version 1 lists B, C; start_version 2 lists C, B).
C1_DiamondKeepsEdges ==
    (pc = "done" /\ registry = RegDiamond /\ NoFilters /\ faults = 0)
        => /\ \E k \in DOMAIN graph : Lower(k) = <<"a">> /\ graph[k] = {B, C}
           /\ B \in DOMAIN graph /\ D \in graph[B]
           /\ C \in DOMAIN graph /\ D \in graph[C]
           /\ D \in DOMAIN graph /\ graph[D] = {}

C1_Witness ==
    /\ pc = "done" /\ registry = RegDiamond /\ NoFilters /\ faults = 0
    /\ start_package = A /\ start_version = V2
    /\ graph = (A :> {B, C}) @@ (B :> {D}) @@ (C :> {D}) @@ (D :> {})

\* C2: every build returns, with an empty stack; on the cycle A->B->A built
\* from A without exclusion and without failed lookups the returned forward
\* graph has the edges A->B and B->A.
C2_CycleTerminates ==
    /\ <>(Done /\ stack = <<>>)
    /\ [](pc = "done" /\ registry = RegCycle /\ start_package = A
          /\ exclude_substring = None /\ faults = 0
            => /\ DOMAIN graph = {A, B}
               /\ B \in graph[A]
               /\ A \in graph[B])

C2_Witness ==
    /\ pc = "done" /\ registry = RegCycle /\ start_package = A
    /\ exclude_substring = None /\ faults = 0
    /\ graph = (A :> {B}) @@ (B :> {A})
    /\ calls[DepLookup(A)] = 1

\* C3: the forward build stops expanding below maxDepth: on the chain
\* A->B->C->D with maxDepth = 1 the returned graph has exactly 2 edges, and
\* C (depth 2) is a key that is not looked up.
C3_MaxDepthCutoff ==
    (pc = "done" /\ registry = RegChain /\ start_package = A
     /\ exclude_substring = None /\ faults = 0)
        => /\ Cardinality(EdgeSet) = 2
           /\ DepLookup(C) \notin DOMAIN calls

\* C4: once a lookup has raised the configuration error, the build does not
\* return a graph.
C4_ConfigErrorIsFatal ==
    (\E e \in errors : e.cause = "config") => pc # "done"

\* C5: a failed dependency lookup of the popped node N leaves N a key with
\* an empty set, then and in the returned graph, leaves the stack as it is
\* and the while loop running, and the build still returns with the stack
\* emptied.
C5_FailureIsolated ==
    /\ [][(pc = "fetch" /\ errors' # errors)
            => /\ pc' = "loop"
               /\ stack' = stack
               /\ current_id \in DOMAIN graph'
               /\ graph'[current_id] = {}]_vars
    /\ [](\A e \in errors : e.fn = "get_package_dependencies"
            => e.id \in DOMAIN graph /\ graph[e.id] = {})
    /\ (DepLookupFailed ~> (pc = "done" /\ stack = <<>>))

C5_Witness ==
    /\ pc = "done" /\ registry = RegDiamond /\ NoFilters /\ start_version = V1
    /\ \E e \in errors : e.fn = "get_package_dependencies" /\ e.id = C
                         /\ e.cause = "index"
    /\ graph[C] = {}
    /\ B \in DOMAIN graph /\ graph[B] = {D}

\* C6: when the version lookup for one dependency of the expanded node
\* raises, the node's remaining dependencies that pass the exclusion filter
\* still get their edges.
C6_VersionFailureIsolated ==
    [][(pc = "deps" /\ pc' = "loop" /\ idx' = idx)
         => \A i \in (idx + 1)..Len(deps_to_process) :
               ~Excluded(deps_to_process[i].id)
                  => deps_to_process[i].id \in graph'[current_id]]_vars

\* C7: with an exclude_substring that does not match the root, no key, no
\* edge target, no visited id, no stack frame and no lookup has an id that
\* contains it (case-insensitively); on A->B->C with B excluded the
\* returned forward graph is the root with an empty set.
C7_ExcludedNowhere ==
    (Truthy(exclude_substring) /\ ~Matches(start_package))
        => /\ \A k \in DOMAIN graph : ~Matches(k) /\ \A d \in graph[k] : ~Matches(d)
           /\ \A v \in visited : ~Matches(v)
           /\ \A i \in 1..Len(stack) : ~Matches(FrameId(stack[i]))
           /\ \A c \in DOMAIN calls : ~Matches(c.id)
           /\ (pc = "done" /\ registry = RegChain /\ Matches(B)
                 => graph = (start_package :> {}))

C7_Witness ==
    /\ pc = "done" /\ registry = RegChain /\ start_package = A
    /\ exclude_substring = <<"b">> /\ faults = 0
    /\ graph = (A :> {})
    /\ DOMAIN calls = {DepLookup(A)}

\* C8: with a non-empty exclude_substring contained (case-insensitively) in
\* the root id, both builds return the empty graph and make no lookup.
C8_RootExcluded ==
    RootMatches
        => /\ pc \in {"start", "rstart", "done", "rdone"}
           /\ graph = EmptyGraph
           /\ DOMAIN calls = {}
           /\ stack = <<>>

C8_Witness ==
    /\ pc = "done" /\ start_package = A /\ exclude_substring = <<"a">>
    /\ registry = RegDiamond /\ graph = EmptyGraph /\ DOMAIN calls = {}

\* C9: each lowercase id is expanded at most once (one dependency or
\* dependents lookup), and no two keys of the graph have the same lowercase
\* form.
C9_OneNodePerLowercaseId ==
    /\ \A c \in Expansions : calls[c] = 1
    /\ \A c1, c2 \in Expansions : Lower(c1.id) = Lower(c2.id) => c1 = c2
    /\ \A k1, k2 \in DOMAIN graph : Lower(k1) = Lower(k2) => k1 = k2

C9_Witness ==
    /\ pc = "done" /\ registry = RegCase /\ start_package = A /\ start_version = V1
    /\ NoFilters /\ faults = 0
    /\ graph[A] = {Fb, fb}
    /\ Cardinality({k \in DOMAIN graph : Lower(k) = fb}) = 1
    /\ Cardinality({c \in Expansions : Lower(c.id) = fb}) = 1

\* C10: every key of the graph is the spelling under which its lowercase id
\* was met first (as the root, or as a dependency entry of the for loop).
C10_KeyIsFirstSeen ==
    \A k \in DOMAIN graph : first_seen[Lower(k)] = k

\* C11: in every state of both builds (so at every boundary of the while
\* loop and in the returned graph) each lowercase id of visited has a key
\* of the graph with that lowercase form, also when the node's lookup has
\* failed or returned nothing.
C11_VisitedHasKey ==
    \A v \in visited : \E k \in DOMAIN graph : Lower(k) = v

C11_Witness ==
    /\ pc = "done" /\ registry = RegDiamond /\ start_package = A /\ NoFilters
    /\ \E e \in errors : e.fn = "get_package_dependencies" /\ e.id = C
    /\ visited = {<<"a">>, <<"b">>, <<"c">>, <<"d">>}
    /\ DOMAIN graph = {A, B, C, D}
    /\ graph[C] = {} /\ graph[D] = {}

\* The ids the registry lists for the leaf of (k, ver) that pass the
\* framework filter (none, or the entry's framework is the filter
\* case-insensitively, or is "Any") and do not contain exclude_substring
\* case-insensitively.
ExpectedEdges(k, ver) ==
    LET leaf == <<Lower(k), Lower(ver)>>
        entries == IF leaf \in DOMAIN registry.deps
                   THEN Range(registry.deps[leaf]) ELSE {}
    IN  {e.id : e \in
            {d \in entries :
                /\ d.id # <<>>
                /\ \/ framework = None
                   \/ Lower(d.framework) = Lower(framework)
                   \/ d.framework = <<"A", "n", "y">>
                /\ \/ exclude_substring = None
                   \/ ~Contains(Lower(exclude_substring), Lower(d.id))}}

\* The versions a key can have been expanded at: the root at start_version,
\* any other node at its latest version.
ExpandedAt(k) ==
    IF Lower(k) = Lower(start_package) THEN {start_version}
    ELSE LatestOf[registry][Lower(k)]

\* A lookup made while expanding k has failed.
ExpansionFailed(k) == \E e \in errors : e.id = k

\* C12: in the returned forward graph, the set of a key whose expansion made
\* no failing lookup is exactly the set of dependency ids the registry
\* lists for (key, version) that pass the framework filter and the exclusion
\* filter, whether or not they were expanded later.
C12_EdgeSetOfExpandedNode ==
    pc = "done"
        => \A k \in DOMAIN graph :
              ~ExpansionFailed(k)
                 => \E ver \in ExpandedAt(k) : graph[k] = ExpectedEdges(k, ver)

C12_Witness ==
    /\ pc = "done" /\ registry = RegFramework /\ start_package = A
    /\ start_version = V1 /\ framework = N4 /\ exclude_substring = <<"b">>
    /\ ~ExpansionFailed(A) /\ ~ExpansionFailed(C)
    /\ graph = (A :> {C}) @@ (C :> {D}) @@ (D :> {})

\* C13: when the for loop meets a dependency d of N that is not excluded
\* and not visited, and the registry answers d's version lookup with an
\* empty list, the edge N->d is recorded, nothing is pushed, no error is
\* printed and the for loop goes on with N's next entry; and a key of the
\* forward graph other than the root always has a known version.
C13_EmptyVersionList ==
    /\ [][(/\ pc = "deps"
           /\ \/ exclude_substring = None
              \/ ~Contains(Lower(exclude_substring), Lower(deps_to_process[idx].id))
           /\ Lower(deps_to_process[idx].id) \notin visited
           /\ Lower(deps_to_process[idx].id) \in DOMAIN registry.versions
           /\ registry.versions[Lower(deps_to_process[idx].id)] = {}
           /\ faults' = faults)
            => /\ deps_to_process[idx].id \in graph'[current_id]
               /\ stack' = stack
               /\ errors' = errors
               /\ idx' = idx + 1
               /\ pc' = IF idx + 1 <= Len(deps_to_process) THEN "deps" ELSE "loop"]_vars
    /\ [](pc \in {"loop", "fetch", "deps", "done"}
            => \A k \in DOMAIN graph :
                  \/ Lower(k) = Lower(start_package)
                  \/ /\ Lower(k) \in DOMAIN registry.versions
                     /\ registry.versions[Lower(k)] # {})

C13_Witness ==
    /\ pc = "done" /\ registry = RegSparse /\ start_package = A
    /\ start_version = V2 /\ NoFilters /\ faults = 0
    /\ registry.versions[<<"b">>] = {}
    /\ graph[A] = {B, D}
    /\ DOMAIN graph = {A, D}
    /\ ~\E c \in DOMAIN calls : c.fn = "get_package_dependencies" /\ c.id = B
    /\ \E c \in DOMAIN calls : c.fn = "get_package_versions" /\ c.id = B

\* The version is one the registry knows for id, and none has a greater key.
IsLatest(id, ver) ==
    /\ Lower(id) \in DOMAIN registry.versions
    /\ ver \in registry.versions[Lower(id)]
    /\ \A w \in registry.versions[Lower(id)] :
          ~KeyLess(version_to_key(ver), version_to_key(w))

\* C14: in the forward build every stack frame other than the root's
\* carries a version of the dependency with the greatest version key among
\* all versions the registry knows, whatever range was declared; only the
\* root is expanded at start_version.
C14_LatestVersionPushed ==
    pc \in {"loop", "fetch", "deps", "done"}
        => /\ \A i \in 1..Len(stack) :
                 \/ i = 1 /\ visited = {} /\ stack[i] = <<start_package, start_version>>
                 \/ IsLatest(stack[i][1], stack[i][2])
           /\ pc \in {"fetch", "deps"}
                 => IF current_id = start_package /\ visited = {Lower(start_package)}
                    THEN current_version = start_version
                    ELSE IsLatest(current_id, current_version)

C14_Witness ==
    /\ pc = "fetch" /\ registry = RegChain /\ start_version = V1
    /\ current_id = C /\ current_version = V2a
    /\ registry.versions[<<"c">>] = {V1, V2a}
    /\ registry.deps[<< <<"b">>, V1 >>][1].range = <<"[", "1", "]">>

\* The dependents lookups made for k.
DependentsLookups(k) ==
    {c \in DOMAIN calls : c.fn = "get_reverse_dependencies" /\ c.id = k}

\* The first max_dependents_per_package dependents the registry lists for
\* k that do not contain exclude_substring case-insensitively.
ExpectedDependents(k) ==
    LET listed == IF k \in DOMAIN registry.dependents
                  THEN registry.dependents[k] ELSE <<>>
    IN  {listed[i] : i \in
            {j \in 1..Len(listed) :
                /\ j <= max_dependents_per_package
                /\ \/ exclude_substring = None
                   \/ ~Contains(Lower(exclude_substring), Lower(listed[j]))}}

\* C17: in the reverse build every key whose lookup has been made has
\* exactly one dependents lookup, made once, with skip 0 and take
\* max_dependents_per_package; unless that lookup failed its set is the
\* returned dependents that pass the exclusion filter, once its for loop is
\* over; and no set has more than max_dependents_per_package members.
C17_ReverseBranchingBound ==
    pc \in {"rloop", "rfetch", "rdeps", "rdone"}
        => \A k \in DOMAIN graph :
              /\ Cardinality(graph[k]) <= max_dependents_per_package
              /\ (k # current_id \/ pc # "rfetch")
                    => /\ DependentsLookups(k) =
                              {[fn |-> "get_reverse_dependencies", id |-> k,
                                skip |-> 0, take |-> max_dependents_per_package]}
                       /\ \A c \in DependentsLookups(k) : calls[c] = 1
              /\ ((k # current_id \/ pc \in {"rloop", "rdone"})
                  /\ ~\E e \in errors : e.id = k)
                    => graph[k] = ExpectedDependents(k)

C17_Witness ==
    /\ pc = "rdone" /\ registry = RegFramework /\ start_package = A
    /\ max_dependents_per_package = 2 /\ exclude_substring = <<"b">>
    /\ faults = 0
    /\ Len(registry.dependents[A]) = 3
    /\ graph = (A :> {C}) @@ (C :> {})
    /\ DependentsLookups(C) # {}

\* C19: no set of the graph of either build holds two members with the
\* same lowercase form: a node that lists one dependency under two
\* spellings has one edge to it.
C19_OneEdgePerLowercaseId ==
    \A k \in DOMAIN graph :
        \A d1, d2 \in graph[k] : Lower(d1) = Lower(d2) => d1 = d2

\* The precedence of versions by their parts.  A core is below another when
\* it is smaller at the first number that differs, or is a proper prefix.
RECURSIVE CoreBelow(_, _)
CoreBelow(a, b) ==
    IF b = <<>> THEN FALSE
    ELSE IF a = <<>> THEN TRUE
    ELSE IF Head(a) # Head(b) THEN Head(a) < Head(b)
    ELSE CoreBelow(Tail(a), Tail(b))

\* Words by code point.
RECURSIVE WordBelow(_, _)
WordBelow(a, b) ==
    IF b = <<>> THEN FALSE
    ELSE IF a = <<>> THEN TRUE
    ELSE IF Head(a) # Head(b) THEN Ord(Head(a)) < Ord(Head(b))
    ELSE WordBelow(Tail(a), Tail(b))

\* A number is below a word, numbers go by value, words by code point.
SegmentBelow(x, y) ==
    \/ x.num /\ ~y.num
    \/ x.num /\ y.num /\ x.n < y.n
    \/ ~x.num /\ ~y.num /\ WordBelow(x.s, y.s)

RECURSIVE SegmentsBelow(_, _)
SegmentsBelow(a, b) ==
    IF b = <<>> THEN FALSE
    ELSE IF a = <<>> THEN TRUE
    ELSE IF Head(a) # Head(b) THEN SegmentBelow(Head(a), Head(b))
    ELSE SegmentsBelow(Tail(a), Tail(b))

RECURSIVE WordsBelow(_, _)
WordsBelow(a, b) ==
    IF b = <<>> THEN FALSE
    ELSE IF a = <<>> THEN TRUE
    ELSE IF Head(a) # Head(b) THEN WordBelow(Head(a), Head(b))
    ELSE WordsBelow(Tail(a), Tail(b))

\* Core first; then a pre-release tag is below none, and two tags go by
\* their segments; then the build part.
PartsBelow(p, q) ==
    \/ CoreBelow(p.core, q.core)
    \/ /\ p.core = q.core
       /\ \/ p.pre # <<>> /\ q.pre = <<>>
          \/ p.pre # <<>> /\ q.pre # <<>> /\ SegmentsBelow(p.pre, q.pre)
    \/ p.core = q.core /\ p.pre = q.pre /\ WordsBelow(p.build, q.build)

\* Where a version stands in the returned list.
Position(text) == CHOOSE i \in DOMAIN sorted_versions : sorted_versions[i] = text

\* The precedence example: each pair is <<higher, lower>>.
Version(core, pre) == Render([core |-> core, pre |-> pre, build |-> <<>>])
ExamplePairs ==
    {<<Version(<<1, 0, 0>>, <<>>), Version(<<1, 0, 0>>, <<Word(beta)>>)>>,
     <<Version(<<1, 0, 0>>, <<Word(beta)>>), Version(<<1, 0, 0>>, <<Word(alpha), Num(2)>>)>>,
     <<Version(<<1, 0, 0>>, <<Word(alpha), Num(2)>>),
       Version(<<1, 0, 0>>, <<Word(alpha), Num(1)>>)>>,
     <<Version(<<2, 0, 0>>, <<>>), Version(<<1, 9, 9>>, <<>>)>>}

\* C15: in the list get_package_versions returns, a well-formed version
\* stands before every well-formed version that is below it by its parts
\* (core first, then pre-release: a tag below none, a number below a word,
\* then build; a core that is a proper prefix below the longer one); so
\* 1.0.0 before 1.0.0-beta before 1.0.0-alpha.2 before 1.0.0-alpha.1, and
\* 2.0.0 before 1.9.9.
C15_VersionKeyPrecedence ==
    vpc = "returned"
        => /\ \A d1, d2 \in drawn :
                 (d1.wellformed /\ d2.wellformed /\ PartsBelow(d1.parts, d2.parts))
                    => Position(d2.text) < Position(d1.text)
           /\ \A e \in ExamplePairs :
                 version_list = {e[1], e[2]} => sorted_versions = e

C15_Witness ==
    /\ vpc = "returned"
    /\ version_list = {<<"1", ".", "0", ".", "0", "-", "b", "e", "t", "a">>,
                       <<"1", ".", "0", ".", "0", "-", "a", "l", "p", "h", "a", ".", "2">>}
    /\ sorted_versions[1] = <<"1", ".", "0", ".", "0", "-", "b", "e", "t", "a">>
    /\ \A d \in drawn : d.wellformed

\* C16: get_package_versions never raises out of version_to_key, whatever
\* strings it has collected, and in the list it returns every string that
\* is no well-formed version stands after every well-formed version.
C16_MalformedRankLowest ==
    /\ vpc # "raised"
    /\ vpc = "returned"
          => \A d1, d2 \in drawn :
                (~d1.wellformed /\ d2.wellformed)
                   => Position(d2.text) < Position(d1.text)

\* C18: when the forward build is run a second time on the registry with
\* the entries of its leaves listed in any other order, and every lookup
\* answers as the registry has it, the second build returns the graph the
\* first returned: the same keys, and the same set for every key.
C18_OrderIndependent ==
    (run = 2 /\ pc = "done") => graph = previous_graph

\* C20: when a run of init has created the configuration file and the next
\* thing that happens is a run of deps, that run loads the configuration
\* and calls find_dependencies.
C20_InitThenDeps ==
    \A i \in 1..(Len(invocations) - 1) :
        (/\ invocations[i] = [command |-> "init", outcome |-> "created"]
         /\ invocations[i + 1].command = "deps")
            => invocations[i + 1].outcome = "find_dependencies"

\* Every edge target of the graph has a version the registry knows.
TargetsHaveVersions ==
    \A k \in DOMAIN graph :
        \A d \in graph[k] :
            /\ Lower(d) \in DOMAIN registry.versions
            /\ registry.versions[Lower(d)] # {}

\* C21: when a forward build has returned without any failed lookup (no
\* error line was printed) and every edge target has a known version, every
\* member of every set of the graph has a key with the same lowercase form.
C21_ForwardGraphClosed ==
    (pc = "done" /\ errors = {} /\ TargetsHaveVersions)
        => \A k \in DOMAIN graph :
              \A d \in graph[k] : \E t \in DOMAIN graph : Lower(t) = Lower(d)

C21_Witness ==
    /\ pc = "done" /\ errors = {} /\ TargetsHaveVersions
    /\ registry = RegCase /\ start_package = <<"a">> /\ start_version = V1
    /\ NoFilters
    /\ graph[<<"a">>] = {Fb, fb}
    /\ D \in DOMAIN graph
    /\ Cardinality(DOMAIN graph) = 3

\* C22: no step of a forward or reverse build, the handling of a failed
\* lookup included, takes an id out of visited, a key out of the graph or
\* a member out of a key's set.
C22_MonotoneAccumulation ==
    [][/\ visited \subseteq visited'
       /\ DOMAIN graph \subseteq DOMAIN graph'
       /\ \A k \in DOMAIN graph : graph[k] \subseteq graph'[k]]_vars

C22_Witness ==
    /\ pc = "done" /\ registry = RegSparse /\ start_package = A
    /\ start_version = V1 /\ NoFilters
    /\ \E e \in errors : e.fn = "get_package_versions" /\ e.cause = "404"
    /\ visited = {<<"a">>}
    /\ graph = (A :> {B, C})

====
